---- MODULE Spec2Model ----
(***************************************************************************)
(* Model of the dcq bridge control loop (bridge/qcs_dcq_bridge.py):        *)
(* BridgeRuntime.connect / ensure_session / run / _apply_plan / close,     *)
(* the clamp helper and the safety configuration it reads.                 *)
(*                                                                         *)
(* Units.  Floats of the source are scaled integers:                       *)
(*   mean photon numbers and probabilities   1 = 0.001                     *)
(*   repetition rates                        1 = 1 Hz                      *)
(*   phases                                  1 = 0.01 degree               *)
(*   QBER                                    1 = 0.1 percent               *)
(* The value sets hold multiples of the divisors the code divides by       *)
(* (10 for mu_bounds[0] / 10.0, 1e6 for Hz -> MHz), so the integer         *)
(* divisions below are exact, as the float divisions of the source are.    *)
(***************************************************************************)
EXTENDS Integers, Sequences, FiniteSets, TLC

VARIABLES
    cfg,            \* BridgeRuntime.config.safety (immutable after load)
    pc,             \* position of the caller inside connect()/run()
    qcs_channel,    \* BridgeRuntime._qcs_channel: "none" | "open" | "closed"
    plugin_channel, \* BridgeRuntime._plugin_channel
    qcs,            \* BridgeRuntime._qcs is set (controller stub)
    plugin,         \* BridgeRuntime._plugin is set (planner stub)
    session_id,     \* BridgeRuntime._session_id
    running,        \* BridgeRuntime._running
    telemetry,      \* the telemetry record of the current tick
    plan,           \* the PlanResponse of the current tick
    pending,        \* exception in flight while the finally block runs
    exc,            \* exception that left run() ("none" on normal return)
    tick0,          \* history: running flag and session id when the tick began
    pre_calls,      \* history: remote calls issued before the loop
    calls,          \* history: remote calls issued by the current tick
    fin_calls,      \* history: remote calls issued by the finally block
    caller,         \* who called the method in progress: "run" or "api"
    response,       \* the value returned by the last call that returned one
    request,        \* the argument of the last call served (planner, clamp)
    plugin_clock,   \* Plugin._clock of the sample planner (dcq_plugin.py)
    probe,          \* history: the plan first returned for ProbeRequest, if any
    inflight,       \* the PlanCycle request a planner worker is serving, if any
    issued          \* history: the last StartQkd/StopQkd and Shutter requests

vars == <<cfg, pc, qcs_channel, plugin_channel, qcs, plugin, session_id,
          running, telemetry, plan, pending, exc, tick0, pre_calls, calls,
          fin_calls, caller, response, request, plugin_clock, probe,
          inflight, issued>>

-----------------------------------------------------------------------------
(* Input domains *)

MuRanges == {<<100, 600>>, <<0, 1000>>, <<600, 100>>}
RepRanges == {<<50000000, 200000000>>, <<0, 0>>, <<200000000, 50000000>>}
PhaseLimits == {800, -100}
QberCeilings == {50}
QberValues == {20, 50, 60}
SessionIds == {"", "qkd-1", "qkd-2"}

MuSignalValues == {0, 400, 2000}
MuDecoyValues == {0, 60, 2000}
VacProbValues == {-50, 150, 1500}
SigProbValues == {650}
DecoyProbValues == {200}
RepRateValues == {0, 10000000, 100000000, 1000000000}
PhaseValues == {0, 10, 11, -2000}

NoneId == "<None>"
NoRequest == "<no request>"

\* ClockModel(coarse_ppb=0.0, fine_hz=0.0, tdc_bin_ps=10.0, gate_ns=1.0);
\* only fine_hz is ever read
BaselineClock == [fine_hz |-> 0]

Outcomes == {"ok", "RpcError", "KeyboardInterrupt"}

\* direct ensure_session calls are explored while fewer requests were issued
MaxPreCalls == 4

\* clamp is applied to values and bounds of -MaxClampInput .. MaxClampInput
MaxClampInput == 3

-----------------------------------------------------------------------------
(* Python helpers *)

\* bool(s) of an Optional[str]
Truthy(s) == s # NoneId /\ s # ""

\* builtin min(a, b): the first argument unless the second is smaller
PyMin(a, b) == IF b < a THEN b ELSE a

\* builtin max(a, b): the first argument unless the second is larger
PyMax(a, b) == IF b > a THEN b ELSE a

\* x or 0.0
OrZero(x) == IF x = 0 THEN 0 ELSE x

Abs(x) == IF x < 0 THEN -x ELSE x

\* clamp that forgets the upper bound
clamp_lower_only(value, bounds) ==
    IF bounds[1] > bounds[2]
    THEN [ok |-> FALSE, v |-> 0]
    ELSE [ok |-> TRUE, v |-> PyMax(bounds[1], value)]

\* clamp without the check of its bounds
clamp_unchecked(value, bounds) ==
    [ok |-> TRUE, v |-> PyMax(bounds[1], PyMin(bounds[2], value))]

\* clamp(value, bounds); ok = FALSE stands for the raised ValueError
clamp(value, bounds) ==
    IF bounds[1] > bounds[2]
    THEN [ok |-> FALSE, v |-> 0]
    ELSE [ok |-> TRUE, v |-> PyMax(bounds[1], PyMin(bounds[2], value))]

\* SafetyLimits.mu_bounds / rep_bounds
mu_bounds == cfg.mu_range
rep_bounds == cfg.rep_rate_hz_range

SafetyLimits ==
    [mu_range : MuRanges, rep_rate_hz_range : RepRanges,
     amzi_phase_deg_limit : PhaseLimits, qber_hard_ceiling_pct : QberCeilings,
     shutter_guard : BOOLEAN]

-----------------------------------------------------------------------------
(* Remote requests, as recorded in the call histories *)

Req(op) ==
    [op |-> op, open |-> FALSE, session_id |-> NoneId, mu_signal |-> 0,
     mu_decoy |-> 0, vacuum_prob |-> 0, symbol_rate_MHz |-> 0, result |-> "ok"]

ShutterRequest(open) == [Req("Shutter") EXCEPT !.open = open]
StartRequest(sid) == [Req("StartQkd") EXCEPT !.session_id = sid]
StopRequest(sid) == [Req("StopQkd") EXCEPT !.session_id = sid]
ConfigureRequest(rate) == [Req("Configure") EXCEPT !.symbol_rate_MHz = rate]
DecoyProfileRequest(sid, d) ==
    [Req("SetDecoyProfile") EXCEPT !.session_id = sid,
                                   !.mu_signal = d.mu_signal,
                                   !.mu_decoy = d.mu_decoy,
                                   !.vacuum_prob = d.vac_prob]

\* no StartQkd, StopQkd or Shutter request was issued yet
NothingIssued == [qkd |-> <<>>, done |-> <<>>, shutter |-> "none"]

\* the last two entries of a history
LastTwo(log) == IF Len(log) > 2 THEN Tail(log) ELSE log

\* the history of the session and shutter requests after req ended with r:
\* qkd holds the last two StartQkd/StopQkd requests issued, done the last
\* two that returned, shutter the last Shutter command issued
Noted(h, req, r) ==
    IF req.op \in {"StartQkd", "StopQkd"}
    THEN [h EXCEPT !.qkd = LastTwo(Append(@, req.op)),
                   !.done = IF r = "ok" THEN LastTwo(Append(@, req.op)) ELSE @]
    ELSE IF req.op = "Shutter"
         THEN [h EXCEPT !.shutter = IF req.open THEN "open" ELSE "close"]
         ELSE h

\* the request is appended to the history with the outcome of the call
Issue(log, req, r) == Append(log, [req EXCEPT !.result = r])

-----------------------------------------------------------------------------
(* Plans returned by the planner: any PlanResponse, fields set or unset *)

NoDecoys ==
    [mu_signal |-> 0, mu_decoy |-> 0, vac_prob |-> 0, sig_prob |-> 0,
     decoy_prob |-> 0]

DecoyProfiles ==
    [mu_signal : MuSignalValues, mu_decoy : MuDecoyValues,
     vac_prob : VacProbValues, sig_prob : SigProbValues,
     decoy_prob : DecoyProbValues]

NoPlan ==
    [has_tx |-> FALSE, has_decoys |-> FALSE, decoys |-> NoDecoys,
     rep_rate_hz |-> 0, has_phase |-> FALSE, amzi_phase_deg |-> 0]

Plans ==
    {p \in [has_tx : BOOLEAN, has_decoys : BOOLEAN,
            decoys : DecoyProfiles \cup {NoDecoys},
            rep_rate_hz : RepRateValues, has_phase : BOOLEAN,
            amzi_phase_deg : PhaseValues] :
        /\ (~p.has_tx) => (~p.has_decoys /\ p.rep_rate_hz = 0)
        /\ (p.has_decoys) <=> (p.decoys # NoDecoys)
        /\ (~p.has_phase) => (p.amzi_phase_deg = 0)}

-----------------------------------------------------------------------------
(* BridgeRuntime.__init__ *)

Init ==
    /\ cfg \in SafetyLimits
    /\ pc = "new"
    /\ qcs_channel = "none"
    /\ plugin_channel = "none"
    /\ qcs = FALSE
    /\ plugin = FALSE
    /\ session_id = NoneId
    /\ running = FALSE
    /\ telemetry = [qber_pct |-> 0]
    /\ plan = NoPlan
    /\ pending = "none"
    /\ exc = "none"
    /\ tick0 = [running |-> FALSE, session_id |-> NoneId]
    /\ pre_calls = <<>>
    /\ calls = <<>>
    /\ fin_calls = <<>>
    /\ caller = "api"
    /\ response = NoneId
    /\ request = NoRequest
    /\ plugin_clock = BaselineClock
    /\ probe = <<>>
    /\ inflight = <<>>
    /\ issued = NothingIssued

-----------------------------------------------------------------------------
\* an exception raised outside the try block leaves the method at once
Raise(e) ==
    /\ pc' = "raised"
    /\ exc' = e

-----------------------------------------------------------------------------
(* BridgeRuntime.connect: the controller channel and stub, then the planner *)
(* channel and stub; the TLS settings of the two endpoints are read here   *)

\* TLSConfig of one endpoint: enable, and whether the CA path is unset
\* ("none"), names a file that does not exist ("missing") or one that does
TLSConfigs == [enable : BOOLEAN, ca : {"none", "missing", "exists"}]

\* TLSConfig.credentials: None, channel credentials, or FileNotFoundError
credentials(tls) ==
    IF ~tls.enable
    THEN "None"
    ELSE IF ~(tls.ca # "none" /\ tls.ca = "exists")
    THEN "FileNotFoundError"
    ELSE "ssl_channel_credentials"

\* BridgeRuntime._open_channel: an insecure or a secure channel, unless the
\* credentials raised
_open_channel(tls) ==
    IF credentials(tls) = "FileNotFoundError" THEN "FileNotFoundError" ELSE "open"

connect ==
    /\ pc = "new"
    /\ \E qcs_tls \in TLSConfigs, plugin_tls \in TLSConfigs :
        IF _open_channel(qcs_tls) = "FileNotFoundError"
        THEN /\ Raise("FileNotFoundError")
             /\ UNCHANGED <<qcs_channel, qcs, plugin_channel, plugin>>
        ELSE /\ qcs_channel' = _open_channel(qcs_tls)
             /\ qcs' = TRUE
             /\ IF _open_channel(plugin_tls) = "FileNotFoundError"
                THEN /\ Raise("FileNotFoundError")
                     /\ UNCHANGED <<plugin_channel, plugin>>
                ELSE /\ plugin_channel' = _open_channel(plugin_tls)
                     /\ plugin' = TRUE
                     /\ pc' = "connected"
                     /\ exc' = exc
    /\ UNCHANGED <<issued, inflight, probe, plugin_clock, request, response, caller, cfg, session_id,
                   running, telemetry, plan, pending, tick0, pre_calls, calls,
                   fin_calls>>

-----------------------------------------------------------------------------
(* BridgeRuntime.run, the part before the try block *)

\* run() without its connection guard
run_begin_unguarded ==
    /\ pc \in {"new", "connected"} \/ (pc = "raised" /\ exc = "FileNotFoundError")
    /\ caller' = "run"
    /\ pc' = "ensure_session"
    /\ exc' = exc
    /\ UNCHANGED <<issued, inflight, probe, plugin_clock, request, response, cfg, qcs_channel,
                   plugin_channel, qcs, plugin, session_id, running, telemetry,
                   plan, pending, tick0, pre_calls, calls, fin_calls>>

\* run(): the connection guard; run() may be called on a new runtime, on a
\* connected one, or on one whose connect() raised
run_begin ==
    /\ pc \in {"new", "connected"} \/ (pc = "raised" /\ exc = "FileNotFoundError")
    /\ caller' = "run"
    /\ IF ~qcs \/ ~plugin
       THEN Raise("RuntimeError")
       ELSE pc' = "ensure_session" /\ exc' = exc
    /\ UNCHANGED <<issued, inflight, probe, plugin_clock, request, response, cfg, qcs_channel, plugin_channel, qcs, plugin, session_id,
                   running, telemetry, plan, pending, tick0, pre_calls, calls,
                   fin_calls>>

\* the symbol rate taken from the lower end of the range
_initial_symbol_rate_mhz_lower ==
    IF rep_bounds[2] <= 0
    THEN 100
    ELSE rep_bounds[1] \div 1000000

\* BridgeRuntime._initial_symbol_rate_mhz
_initial_symbol_rate_mhz ==
    IF rep_bounds[2] <= 0
    THEN 100
    ELSE ((rep_bounds[1] + rep_bounds[2]) \div 2) \div 1000000

\* the caller's position when no method is in progress
Idle == IF qcs THEN "connected" ELSE "new"

\* where ensure_session returns to: run() goes on with the clock model
EnsureReturn == IF caller = "run" THEN "send_clock_model" ELSE Idle

\* where _apply_plan returns to: run() goes on with the sleep
ApplyReturn == IF caller = "run" THEN "sleep" ELSE Idle

\* ensure_session(): the guards and the Configure request
ensure_session_configure ==
    /\ pc = "ensure_session"
    /\ IF Truthy(session_id)
       THEN /\ pc' = EnsureReturn
            /\ response' = session_id
            /\ UNCHANGED <<session_id, exc, pre_calls>>
       ELSE IF ~qcs
       THEN /\ Raise("RuntimeError")
            /\ UNCHANGED <<session_id, pre_calls, response>>
       ELSE \E r \in Outcomes :
            /\ pre_calls' =
                   Issue(pre_calls, ConfigureRequest(_initial_symbol_rate_mhz), r)
            /\ IF r = "ok"
               THEN /\ \E sid \in SessionIds : session_id' = sid
                    /\ pc' = "ensure_start"
                    /\ exc' = exc
               ELSE /\ Raise(r)
                    /\ session_id' = session_id
            /\ response' = response
    /\ UNCHANGED <<issued, inflight, probe, plugin_clock, request, caller, cfg, qcs_channel, plugin_channel, qcs, plugin, running,
                   telemetry, plan, pending, tick0, calls, fin_calls>>

\* ensure_session(): the StartQkd request and the running flag
ensure_session_start ==
    /\ pc = "ensure_start"
    /\ \E r \in Outcomes :
        /\ pre_calls' = Issue(pre_calls, StartRequest(session_id), r)
        /\ issued' = Noted(issued, StartRequest(session_id), r)
        /\ IF r = "ok"
           THEN /\ running' = TRUE
                /\ pc' = EnsureReturn
                /\ response' = session_id
                /\ exc' = exc
           ELSE /\ Raise(r)
                /\ UNCHANGED <<running, response>>
    /\ UNCHANGED <<inflight, probe, plugin_clock, request, caller, cfg, qcs_channel, plugin_channel, qcs, plugin, session_id,
                   telemetry, plan, pending, tick0, calls, fin_calls>>

\* a planner request of the prologue: issue it, go on or leave run()
PrologueCall(here, op, next) ==
    /\ pc = here
    /\ \E r \in Outcomes :
        /\ pre_calls' = Issue(pre_calls, Req(op), r)
        /\ IF r = "ok"
           THEN pc' = next /\ exc' = exc
           ELSE Raise(r)
    /\ UNCHANGED <<issued, inflight, probe, plugin_clock, request, response, caller, cfg, qcs_channel, plugin_channel, qcs, plugin, session_id,
                   running, telemetry, plan, pending, tick0, calls, fin_calls>>

\* the prologue without the clock model push
_send_clock_model_omitted == PrologueCall("send_clock_model", "Hello", "describe")

\* BridgeRuntime._send_clock_model (the planner stub is set inside run())
_send_clock_model == PrologueCall("send_clock_model", "SetClockModel", "hello")

\* self._plugin.Hello(...)
hello == PrologueCall("hello", "Hello", "describe")

\* self._plugin.Describe(...); the loop is entered afterwards
describe == PrologueCall("describe", "Describe", "poll")

-----------------------------------------------------------------------------
(* BridgeRuntime.run, the loop inside the try block *)

\* an exception raised inside the try block of run(): `except
\* KeyboardInterrupt` swallows the interrupt, anything else stays in flight;
\* then `finally`.  Raised by a method that was called directly, the exception
\* leaves the method at once.
Except(e) ==
    IF caller = "run"
    THEN /\ pending' = (IF e = "KeyboardInterrupt" THEN "none" ELSE e)
         /\ pc' = "fin_stop"
         /\ exc' = exc
    ELSE /\ pending' = pending
         /\ Raise(e)

\* the interlock with a strict comparison: qber equal to the ceiling plans
\* the interlock that plans below the ceiling without recovering first
AfterPoll_plans_while_parked(qber_pct) ==
    IF qber_pct >= cfg.qber_hard_ceiling_pct
    THEN (IF running THEN "park_shutter" ELSE "sleep")
    ELSE "plan_cycle"

\* the interlock that lets a reading equal to the ceiling pass
AfterPoll_strict(qber_pct) ==
    IF qber_pct > cfg.qber_hard_ceiling_pct
    THEN (IF running THEN "park_shutter" ELSE "sleep")
    ELSE (IF ~running THEN "recover_shutter" ELSE "plan_cycle")

\* the interlock that parks again although the bridge is parked already
AfterPoll_reparks(qber_pct) ==
    IF qber_pct >= cfg.qber_hard_ceiling_pct
    THEN "park_shutter"
    ELSE (IF ~running THEN "recover_shutter" ELSE "plan_cycle")

\* the interlock with a hysteresis band: a parked bridge recovers only well
\* below the ceiling
AfterPoll_hysteresis(qber_pct) ==
    IF qber_pct >= cfg.qber_hard_ceiling_pct
    THEN (IF running THEN "park_shutter" ELSE "sleep")
    ELSE (IF ~running
          THEN (IF qber_pct + 40 > cfg.qber_hard_ceiling_pct
                THEN "sleep"
                ELSE "recover_shutter")
          ELSE "plan_cycle")

\* where the tick goes once the telemetry is known
AfterPoll(qber_pct) ==
    IF qber_pct >= cfg.qber_hard_ceiling_pct
    THEN (IF running THEN "park_shutter" ELSE "sleep")
    ELSE (IF ~running THEN "recover_shutter" ELSE "plan_cycle")

\* GetStatus and _status_to_telemetry: a tick begins
poll ==
    /\ pc = "poll"
    /\ tick0' = [running |-> running, session_id |-> session_id]
    /\ plan' = NoPlan
    /\ \E r \in Outcomes :
        /\ calls' = Issue(<<>>, Req("GetStatus"), r)
        /\ IF r = "ok"
           THEN \E q \in QberValues :
                /\ telemetry' = [qber_pct |-> q]
                /\ pc' = AfterPoll(q)
                /\ UNCHANGED <<pending, exc>>
           ELSE /\ telemetry' = telemetry
                /\ Except(r)
    /\ UNCHANGED <<issued, inflight, probe, plugin_clock, request, response, caller, cfg, qcs_channel, plugin_channel, qcs, plugin, session_id,
                   running, pre_calls, fin_calls>>

\* a request of the loop that changes no field: issue it, go on or unwind
LoopCall(here, req, next) ==
    /\ pc = here
    /\ \E r \in Outcomes :
        /\ calls' = Issue(calls, req, r)
        /\ issued' = Noted(issued, req, r)
        /\ IF r = "ok"
           THEN pc' = next /\ UNCHANGED <<pending, exc>>
           ELSE Except(r)
    /\ UNCHANGED <<inflight, probe, plugin_clock, request, response, caller, cfg, qcs_channel, plugin_channel, qcs, plugin, session_id,
                   running, telemetry, plan, tick0, pre_calls, fin_calls>>

\* parking: Shutter(open=False)
park_shutter == LoopCall("park_shutter", ShutterRequest(FALSE), "park_stop")

\* parking that stops the session but leaves the running flag set
park_stop_keeps_flag ==
    /\ pc = "park_stop"
    /\ \E r \in Outcomes :
        /\ calls' = Issue(calls, StopRequest(session_id), r)
        /\ issued' = Noted(issued, StopRequest(session_id), r)
        /\ IF r = "ok"
           THEN pc' = "sleep" /\ UNCHANGED <<pending, exc>>
           ELSE Except(r)
    /\ UNCHANGED <<inflight, probe, plugin_clock, request, response, caller, cfg, qcs_channel, plugin_channel, qcs, plugin, session_id,
                   running, telemetry, plan, tick0, pre_calls, fin_calls>>

\* parking: StopQkd, then the running flag is cleared
park_stop ==
    /\ pc = "park_stop"
    /\ \E r \in Outcomes :
        /\ calls' = Issue(calls, StopRequest(session_id), r)
        /\ issued' = Noted(issued, StopRequest(session_id), r)
        /\ IF r = "ok"
           THEN /\ running' = FALSE
                /\ pc' = "sleep"
                /\ UNCHANGED <<pending, exc>>
           ELSE /\ running' = running
                /\ Except(r)
    /\ UNCHANGED <<inflight, probe, plugin_clock, request, response, caller, cfg, qcs_channel, plugin_channel, qcs, plugin, session_id,
                   telemetry, plan, tick0, pre_calls, fin_calls>>

\* recovery: Shutter(open=True)
recover_shutter ==
    LoopCall("recover_shutter", ShutterRequest(TRUE), "recover_start")

\* recovery that restarts the session but forgets the running flag
recover_start_keeps_flag ==
    /\ pc = "recover_start"
    /\ \E r \in Outcomes :
        /\ calls' = Issue(calls, StartRequest(session_id), r)
        /\ issued' = Noted(issued, StartRequest(session_id), r)
        /\ IF r = "ok"
           THEN pc' = "plan_cycle" /\ UNCHANGED <<pending, exc>>
           ELSE Except(r)
    /\ UNCHANGED <<inflight, probe, plugin_clock, request, response, caller, cfg, qcs_channel, plugin_channel, qcs, plugin, session_id,
                   running, telemetry, plan, tick0, pre_calls, fin_calls>>

\* recovery: StartQkd, then the running flag is set
recover_start ==
    /\ pc = "recover_start"
    /\ \E r \in Outcomes :
        /\ calls' = Issue(calls, StartRequest(session_id), r)
        /\ issued' = Noted(issued, StartRequest(session_id), r)
        /\ IF r = "ok"
           THEN /\ running' = TRUE
                /\ pc' = "plan_cycle"
                /\ UNCHANGED <<pending, exc>>
           ELSE /\ running' = running
                /\ Except(r)
    /\ UNCHANGED <<inflight, probe, plugin_clock, request, response, caller, cfg, qcs_channel, plugin_channel, qcs, plugin, session_id,
                   telemetry, plan, tick0, pre_calls, fin_calls>>

\* self._plugin.PlanCycle(...): the planner may answer with any plan
plan_cycle ==
    /\ pc = "plan_cycle"
    /\ \E r \in Outcomes :
        /\ calls' = Issue(calls, Req("PlanCycle"), r)
        /\ IF r = "ok"
           THEN /\ \E p \in Plans : plan' = p
                /\ pc' = "apply_decoys"
                /\ UNCHANGED <<pending, exc>>
           ELSE /\ plan' = plan
                /\ Except(r)
    /\ UNCHANGED <<issued, inflight, probe, plugin_clock, request, response, caller, cfg, qcs_channel, plugin_channel, qcs, plugin, session_id,
                   running, telemetry, tick0, pre_calls, fin_calls>>

\* the sleep after which the plan at hand is applied again without a poll
sleep_replays_plan ==
    /\ pc = "sleep"
    /\ \E r \in {"ok", "KeyboardInterrupt"} :
        IF r = "ok"
        THEN pc' = (IF plan = NoPlan THEN "poll" ELSE "apply_decoys")
             /\ UNCHANGED <<pending, exc>>
        ELSE Except(r)
    /\ UNCHANGED <<issued, inflight, probe, plugin_clock, request, response, caller, cfg, qcs_channel, plugin_channel, qcs, plugin, session_id,
                   running, telemetry, plan, tick0, pre_calls, calls,
                   fin_calls>>

\* time.sleep(cycle_period): returns, or is interrupted
sleep ==
    /\ pc = "sleep"
    /\ \E r \in {"ok", "KeyboardInterrupt"} :
        IF r = "ok"
        THEN pc' = "poll" /\ UNCHANGED <<pending, exc>>
        ELSE Except(r)
    /\ UNCHANGED <<issued, inflight, probe, plugin_clock, request, response, caller, cfg, qcs_channel, plugin_channel, qcs, plugin, session_id,
                   running, telemetry, plan, tick0, pre_calls, calls,
                   fin_calls>>

-----------------------------------------------------------------------------
(* BridgeRuntime._apply_plan, one step per controller request *)

\* BridgeRuntime._clamp_decoys; ok = FALSE when one of its clamps raised
_clamp_decoys(decoys) ==
    LET mu_sig == clamp(OrZero(decoys.mu_signal), mu_bounds)
        mu_dec == clamp(OrZero(decoys.mu_decoy),
                        <<mu_bounds[1] \div 10, mu_bounds[2]>>)
        vac_prob == clamp(OrZero(decoys.vac_prob), <<0, 1000>>)
        sig_prob == clamp(OrZero(decoys.sig_prob), <<0, 1000>>)
        decoy_prob == clamp(OrZero(decoys.decoy_prob), <<0, 1000>>)
    IN  [ok |-> mu_sig.ok /\ mu_dec.ok /\ vac_prob.ok /\ sig_prob.ok
                /\ decoy_prob.ok,
         v |-> [mu_signal |-> mu_sig.v, mu_decoy |-> mu_dec.v,
                vac_prob |-> vac_prob.v, sig_prob |-> sig_prob.v,
                decoy_prob |-> decoy_prob.v]]

\* the decoy profile step without the session guard
apply_decoys_unguarded ==
    /\ pc = "apply_decoys"
    /\ IF plan.has_tx /\ plan.has_decoys
       THEN LET decoys == _clamp_decoys(plan.decoys)
            IN  IF ~decoys.ok
                THEN Except("ValueError") /\ calls' = calls
                ELSE \E r \in Outcomes :
                     /\ calls' = Issue(calls,
                            DecoyProfileRequest(session_id, decoys.v), r)
                     /\ IF r = "ok"
                        THEN pc' = "apply_rep_rate" /\ UNCHANGED <<pending, exc>>
                        ELSE Except(r)
       ELSE pc' = "apply_rep_rate" /\ UNCHANGED <<pending, exc>> /\ calls' = calls
    /\ UNCHANGED <<issued, inflight, probe, plugin_clock, request, response, caller, cfg, qcs_channel,
                   plugin_channel, qcs, plugin, session_id, running, telemetry,
                   plan, tick0, pre_calls, fin_calls>>

\* the session guard, then the decoy profile: clamp and SetDecoyProfile
apply_decoys ==
    /\ pc = "apply_decoys"
    /\ IF ~qcs \/ ~Truthy(session_id)
       THEN Except("RuntimeError") /\ calls' = calls
       ELSE IF plan.has_tx /\ plan.has_decoys
       THEN LET decoys == _clamp_decoys(plan.decoys)
            IN  IF ~decoys.ok
                THEN Except("ValueError") /\ calls' = calls
                ELSE \E r \in Outcomes :
                     /\ calls' = Issue(calls,
                            DecoyProfileRequest(session_id, decoys.v), r)
                     /\ IF r = "ok"
                        THEN pc' = "apply_rep_rate" /\ UNCHANGED <<pending, exc>>
                        ELSE Except(r)
       ELSE pc' = "apply_rep_rate" /\ UNCHANGED <<pending, exc>> /\ calls' = calls
    /\ UNCHANGED <<issued, inflight, probe, plugin_clock, request, response, caller, cfg, qcs_channel, plugin_channel, qcs, plugin, session_id,
                   running, telemetry, plan, tick0, pre_calls, fin_calls>>

\* the repetition rate sent as planned, without the clamp
apply_rep_rate_unclamped ==
    /\ pc = "apply_rep_rate"
    /\ IF plan.has_tx /\ plan.rep_rate_hz # 0
       THEN \E r \in Outcomes :
            /\ calls' = Issue(calls,
                   ConfigureRequest(plan.rep_rate_hz \div 1000000), r)
            /\ IF r = "ok"
               THEN pc' = "apply_phase" /\ UNCHANGED <<pending, exc>>
               ELSE Except(r)
       ELSE pc' = "apply_phase" /\ UNCHANGED <<pending, exc>> /\ calls' = calls
    /\ UNCHANGED <<issued, inflight, probe, plugin_clock, request, response, caller, cfg, qcs_channel, plugin_channel, qcs, plugin, session_id,
                   running, telemetry, plan, tick0, pre_calls, fin_calls>>

\* the repetition rate step adopting the session id its Configure returns
apply_rep_rate_adopts_session ==
    /\ pc = "apply_rep_rate"
    /\ IF plan.has_tx /\ plan.rep_rate_hz # 0
       THEN LET rep_rate == clamp(plan.rep_rate_hz, rep_bounds)
            IN  IF ~rep_rate.ok
                THEN Except("ValueError") /\ calls' = calls
                     /\ session_id' = session_id
                ELSE \E r \in Outcomes :
                     /\ calls' = Issue(calls,
                            ConfigureRequest(rep_rate.v \div 1000000), r)
                     /\ IF r = "ok"
                        THEN /\ pc' = "apply_phase"
                             /\ \E sid \in SessionIds : session_id' = sid
                             /\ UNCHANGED <<pending, exc>>
                        ELSE Except(r) /\ session_id' = session_id
       ELSE /\ pc' = "apply_phase" /\ UNCHANGED <<pending, exc>>
            /\ calls' = calls /\ session_id' = session_id
    /\ UNCHANGED <<issued, inflight, probe, plugin_clock, request, response, caller, cfg, qcs_channel, plugin_channel, qcs, plugin,
                   running, telemetry, plan, tick0, pre_calls, fin_calls>>

\* the repetition rate: clamp and Configure
apply_rep_rate ==
    /\ pc = "apply_rep_rate"
    /\ IF plan.has_tx /\ plan.rep_rate_hz # 0
       THEN LET rep_rate == clamp(plan.rep_rate_hz, rep_bounds)
            IN  IF ~rep_rate.ok
                THEN Except("ValueError") /\ calls' = calls
                ELSE \E r \in Outcomes :
                     /\ calls' = Issue(calls,
                            ConfigureRequest(rep_rate.v \div 1000000), r)
                     /\ IF r = "ok"
                        THEN pc' = "apply_phase" /\ UNCHANGED <<pending, exc>>
                        ELSE Except(r)
       ELSE pc' = "apply_phase" /\ UNCHANGED <<pending, exc>> /\ calls' = calls
    /\ UNCHANGED <<issued, inflight, probe, plugin_clock, request, response, caller, cfg, qcs_channel, plugin_channel, qcs, plugin, session_id,
                   running, telemetry, plan, tick0, pre_calls, fin_calls>>

\* the phase: deadband, clamp and Calibrate; _publish_domain_policy, which
\* follows, only logs
apply_phase ==
    /\ pc = "apply_phase"
    /\ IF plan.has_phase /\ Abs(plan.amzi_phase_deg) > 10
       THEN LET phase_delta ==
                    clamp(plan.amzi_phase_deg,
                          <<-cfg.amzi_phase_deg_limit, cfg.amzi_phase_deg_limit>>)
            IN  IF ~phase_delta.ok
                THEN Except("ValueError") /\ calls' = calls
                ELSE \E r \in Outcomes :
                     /\ calls' = Issue(calls, Req("Calibrate"), r)
                     /\ IF r = "ok"
                        THEN pc' = ApplyReturn /\ UNCHANGED <<pending, exc>>
                        ELSE Except(r)
       ELSE pc' = ApplyReturn /\ UNCHANGED <<pending, exc>> /\ calls' = calls
    /\ UNCHANGED <<issued, inflight, probe, plugin_clock, request, response, caller, cfg, qcs_channel, plugin_channel, qcs, plugin, session_id,
                   running, telemetry, plan, tick0, pre_calls, fin_calls>>

-----------------------------------------------------------------------------
(* BridgeRuntime.run, the finally block *)

\* the finally block stopping the session on the running flag alone
finally_stop_ignores_session ==
    /\ pc = "fin_stop"
    /\ IF running
       THEN \E r \in Outcomes :
            /\ fin_calls' = Issue(fin_calls, StopRequest(session_id), r)
            /\ issued' = Noted(issued, StopRequest(session_id), r)
            /\ IF r = "ok"
               THEN pc' = "fin_shutter" /\ exc' = exc
               ELSE Raise(r)
       ELSE pc' = "fin_shutter" /\ exc' = exc /\ fin_calls' = fin_calls
            /\ issued' = issued
    /\ UNCHANGED <<inflight, probe, plugin_clock, request, response, caller, cfg, qcs_channel, plugin_channel, qcs, plugin, session_id,
                   running, telemetry, plan, pending, tick0, pre_calls, calls>>

\* `if self._running and self._session_id: StopQkd`; a failure leaves the
\* finally block at once, replacing the exception in flight
finally_stop ==
    /\ pc = "fin_stop"
    /\ IF running /\ Truthy(session_id)
       THEN \E r \in Outcomes :
            /\ fin_calls' = Issue(fin_calls, StopRequest(session_id), r)
            /\ issued' = Noted(issued, StopRequest(session_id), r)
            /\ IF r = "ok"
               THEN pc' = "fin_shutter" /\ exc' = exc
               ELSE Raise(r)
       ELSE pc' = "fin_shutter" /\ exc' = exc /\ fin_calls' = fin_calls
            /\ issued' = issued
    /\ UNCHANGED <<inflight, probe, plugin_clock, request, response, caller, cfg, qcs_channel, plugin_channel, qcs, plugin, session_id,
                   running, telemetry, plan, pending, tick0, pre_calls, calls>>

\* the finally block without the try/except around the shutter close
finally_shutter_propagates ==
    /\ pc = "fin_shutter"
    /\ IF cfg.shutter_guard
       THEN \E r \in Outcomes :
            /\ fin_calls' = Issue(fin_calls, ShutterRequest(FALSE), r)
            /\ issued' = Noted(issued, ShutterRequest(FALSE), r)
            /\ IF r # "ok"
               THEN Raise(r)
               ELSE pc' = "fin_close" /\ exc' = exc
       ELSE pc' = "fin_close" /\ exc' = exc /\ fin_calls' = fin_calls
            /\ issued' = issued
    /\ UNCHANGED <<inflight, probe, plugin_clock, request, response, caller, cfg, qcs_channel, plugin_channel, qcs, plugin, session_id,
                   running, telemetry, plan, pending, tick0, pre_calls, calls>>

\* `if shutter_guard: try: Shutter(open=False) except Exception: log`;
\* KeyboardInterrupt is not an Exception and is not caught
finally_shutter ==
    /\ pc = "fin_shutter"
    /\ IF cfg.shutter_guard
       THEN \E r \in Outcomes :
            /\ fin_calls' = Issue(fin_calls, ShutterRequest(FALSE), r)
            /\ issued' = Noted(issued, ShutterRequest(FALSE), r)
            /\ IF r = "KeyboardInterrupt"
               THEN Raise(r)
               ELSE pc' = "fin_close" /\ exc' = exc
       ELSE pc' = "fin_close" /\ exc' = exc /\ fin_calls' = fin_calls
            /\ issued' = issued
    /\ UNCHANGED <<inflight, probe, plugin_clock, request, response, caller, cfg, qcs_channel, plugin_channel, qcs, plugin, session_id,
                   running, telemetry, plan, pending, tick0, pre_calls, calls>>

\* BridgeRuntime.close: every channel that was opened is closed
close(channel) == IF channel = "none" THEN "none" ELSE "closed"

\* self.close(), then run() returns or re-raises the exception in flight
finally_close ==
    /\ pc = "fin_close"
    /\ qcs_channel' = close(qcs_channel)
    /\ plugin_channel' = close(plugin_channel)
    /\ exc' = pending
    /\ pc' = (IF pending = "none" THEN "returned" ELSE "raised")
    /\ UNCHANGED <<issued, inflight, probe, plugin_clock, request, response, caller, cfg, qcs, plugin, session_id, running, telemetry, plan,
                   pending, tick0, pre_calls, calls, fin_calls>>

-----------------------------------------------------------------------------
(* The methods of BridgeRuntime called directly, outside run()             *)

\* ensure_session() called by a client of the runtime
api_ensure_session ==
    /\ pc \in {"new", "connected"}
    /\ Len(pre_calls) < MaxPreCalls
    /\ pc' = "ensure_session"
    /\ caller' = "api"
    /\ UNCHANGED <<issued, inflight, probe, plugin_clock, request, response, cfg, qcs_channel,
                   plugin_channel, qcs, plugin, session_id, running, telemetry,
                   plan, pending, exc, tick0, pre_calls, calls, fin_calls>>

\* _apply_plan(plan) called by a client of the runtime, with any plan; one
\* such call is explored per behaviour
api_apply_plan ==
    /\ pc \in {"new", "connected"}
    /\ plan = NoPlan /\ calls = <<>>
    /\ \E p \in Plans : plan' = p
    /\ calls' = <<>>
    /\ pc' = "apply_decoys"
    /\ caller' = "api"
    /\ UNCHANGED <<issued, inflight, probe, plugin_clock, request, response, cfg, qcs_channel,
                   plugin_channel, qcs, plugin, session_id, running, telemetry,
                   pending, exc, tick0, pre_calls, fin_calls>>

-----------------------------------------------------------------------------

Next ==
    \/ connect
    \/ run_begin
    \/ ensure_session_configure
    \/ ensure_session_start
    \/ _send_clock_model
    \/ hello
    \/ describe
    \/ poll
    \/ park_shutter
    \/ park_stop
    \/ recover_shutter
    \/ recover_start
    \/ plan_cycle
    \/ apply_decoys
    \/ apply_rep_rate
    \/ apply_phase
    \/ sleep
    \/ finally_stop
    \/ finally_shutter
    \/ finally_close

Spec == Init /\ [][Next]_vars

\* a client that calls connect, ensure_session, _apply_plan and run directly;
\* what run() does after ensure_session is the subject of Spec
NextApi ==
    \/ connect
    \/ api_ensure_session
    \/ ensure_session_configure
    \/ ensure_session_start
    \/ api_apply_plan
    \/ apply_decoys
    \/ apply_rep_rate
    \/ apply_phase
    \/ run_begin

SpecApi == Init /\ [][NextApi]_vars

-----------------------------------------------------------------------------
(* clamp applied on its own: the inputs are drawn in the initial state *)

\* SafetyLimits.from_dict of an empty section
DefaultSafetyLimits ==
    [mu_range |-> <<0, 1000>>, rep_rate_hz_range |-> <<0, 0>>,
     amzi_phase_deg_limit |-> 0, qber_hard_ceiling_pct |-> 0,
     shutter_guard |-> TRUE]

\* a runtime that was constructed from the default limits and is never used
RuntimeAtRest ==
    /\ cfg = DefaultSafetyLimits
    /\ qcs_channel = "none"
    /\ plugin_channel = "none"
    /\ qcs = FALSE
    /\ plugin = FALSE
    /\ session_id = NoneId
    /\ running = FALSE
    /\ telemetry = [qber_pct |-> 0]
    /\ plan = NoPlan
    /\ pending = "none"
    /\ exc = "none"
    /\ tick0 = [running |-> FALSE, session_id |-> NoneId]
    /\ pre_calls = <<>>
    /\ calls = <<>>
    /\ fin_calls = <<>>
    /\ caller = "api"
    /\ issued = NothingIssued

ClampInputs == (-MaxClampInput) .. MaxClampInput

InitClamp ==
    /\ RuntimeAtRest
    /\ pc = "clamp"
    /\ plugin_clock = BaselineClock
    /\ probe = <<>>
    /\ inflight = <<>>
    /\ request \in [value : ClampInputs, bounds : ClampInputs \X ClampInputs]
    /\ response = [ok |-> FALSE, v |-> 0]

\* clamp(value, bounds) is called with the inputs drawn
clamp_call ==
    /\ pc = "clamp"
    /\ response' = clamp(request.value, request.bounds)
    /\ pc' = "clamp_done"
    /\ UNCHANGED <<issued, inflight, probe, plugin_clock, request, caller, cfg, qcs_channel,
                   plugin_channel, qcs, plugin, session_id, running, telemetry,
                   plan, pending, exc, tick0, pre_calls, calls, fin_calls>>

NextClamp == clamp_call

SpecClamp == InitClamp /\ [][NextClamp]_vars

-----------------------------------------------------------------------------
(* The reference planner, dcq_plugin.Plugin.  Its requests are served one  *)
(* at a time here.  Units: atm_loss_db_per_km 1 = 0.1 dB/km, qber_pct      *)
(* 1 = 0.1 %, scintillation_idx 1 = 0.01, rates in Hz, fine_hz 1 = 1 mHz,  *)
(* gate_shift_ps in ps, amzi_phase_deg 1 = 0.01 degree, mu and             *)
(* probabilities 1 = 0.001.  The rates drawn are multiples of 1 MHz, so    *)
(* every halving, quartering and gate-shift quotient below is exact.       *)

LossValues == {100, 101, 200, 201}
PlanQberValues == {30, 31, 50, 51}
ScintillationValues == {30, 31, 100}
RepRateMinValues == {0, 20000000, 200000000}
RepRateMaxValues == {0, 40000000, 200000000}
FineHzValues == {-1000, 0, 5}

\* fine_hz of the clock field that a plan request carries
RequestFineHzValues == {5}

ClockModels == [fine_hz : FineHzValues]

Telemetries ==
    [atm_loss_db_per_km : LossValues, qber_pct : PlanQberValues,
     scintillation_idx : ScintillationValues]

Constraints ==
    [rep_rate_min_hz : RepRateMinValues, rep_rate_max_hz : RepRateMaxValues]

PlanRequests ==
    [clock : [fine_hz : RequestFineHzValues], tel : Telemetries,
     limits : Constraints]

\* the request whose first plan is remembered in probe
ProbeRequest ==
    [clock |-> [fine_hz |-> 5],
     tel |-> [atm_loss_db_per_km |-> 100, qber_pct |-> 30,
              scintillation_idx |-> 31],
     limits |-> [rep_rate_min_hz |-> 0, rep_rate_max_hz |-> 0]]

\* telemetry.atm_loss_db_per_km >= 10 or telemetry.qber_pct >= 3
Tier1_inclusive(tel) == tel.atm_loss_db_per_km >= 100 \/ tel.qber_pct >= 30

\* telemetry.atm_loss_db_per_km > 10 or telemetry.qber_pct > 3
Tier1(tel) == tel.atm_loss_db_per_km > 100 \/ tel.qber_pct > 30

\* telemetry.atm_loss_db_per_km > 20 or telemetry.qber_pct > 5
Tier2(tel) == tel.atm_loss_db_per_km > 200 \/ tel.qber_pct > 50

\* max(limits.rep_rate_min_hz, 1.0e6)
rep_floor(limits) == PyMax(limits.rep_rate_min_hz, 1000000)

\* the ceiling without the fallback for an unset maximum
rep_ceiling_no_fallback(limits) == limits.rep_rate_max_hz

\* limits.rep_rate_max_hz or 1.0e9
rep_ceiling(limits) ==
    IF limits.rep_rate_max_hz # 0 THEN limits.rep_rate_max_hz ELSE 1000000000

\* the first rate with the configured maximum left out
rep_baseline_ignores_ceiling(limits) == PyMax(rep_floor(limits), 100000000)

\* rep_rate as first assigned, before it is walked down
rep_baseline(limits) ==
    PyMax(rep_floor(limits), PyMin(100000000, rep_ceiling(limits)))

\* rep_rate after the two conditional reductions, the second applied to the
\* result of the first
rep_rate(tel, limits) ==
    LET r0 == rep_baseline(limits)
        r1 == IF Tier1(tel) THEN PyMax(rep_floor(limits), r0 \div 2) ELSE r0
    IN  IF Tier2(tel) THEN PyMax(rep_floor(limits), r1 \div 4) ELSE r1

\* the gate shift with the lower guard rail forgotten
gate_shift_ps_upper_only(clock, rate) ==
    PyMin((clock.fine_hz * 8000) \div (rate \div 125000), 150)

\* (self._clock.fine_hz / rep_rate) * 1e12, then max(min(., 150.0), -150.0)
gate_shift_ps(clock, rate) ==
    PyMax(PyMin((clock.fine_hz * 8000) \div (rate \div 125000), 150), -150)

Profile(mu_s, mu_d, vac, sig, dec) ==
    [mu_signal |-> mu_s, mu_decoy |-> mu_d, vac_prob |-> vac,
     sig_prob |-> sig, decoy_prob |-> dec]

\* the adaptive decoy profile: the defaults, overwritten by each tier in turn
decoys(tel) ==
    LET d0 == Profile(500, 80, 100, 750, 150)
        d1 == IF Tier1(tel) THEN Profile(400, 60, 150, 650, 200) ELSE d0
    IN  IF Tier2(tel) THEN Profile(300, 50, 200, 600, 200) ELSE d1

\* the phase dither without its ceiling
phase_deg_unbounded(tel) ==
    IF tel.scintillation_idx > 30
    THEN PyMax((tel.scintillation_idx - 30) * 20, -800)
    ELSE 0

\* the phase dither
phase_deg(tel) ==
    IF tel.scintillation_idx > 30
    THEN PyMax(PyMin((tel.scintillation_idx - 30) * 20, 800), -800)
    ELSE 0

\* the domain hint switching as soon as the first tier triggers
preferred_from_tier1(tel) == IF Tier1(tel) THEN "MMWAVE" ELSE "FSO"

\* the domain hint
preferred(tel) == IF Tier2(tel) THEN "MMWAVE" ELSE "FSO"

\* dscp is assigned 46 on both paths
dscp(tel) == IF Tier2(tel) THEN 46 ELSE 46

\* the plan with the gate shift taken from the request's clock field
PlanResponse_from_request_clock(clock, req) ==
    [rep_rate_hz |-> rep_rate(req.tel, req.limits),
     pulse_width_ps |-> 100,
     decoys |-> decoys(req.tel),
     gate_shift_ps |-> gate_shift_ps(req.clock, rep_rate(req.tel, req.limits)),
     amzi_phase_deg |-> phase_deg(req.tel),
     eom_bias_v_delta |-> 0,
     preferred |-> preferred(req.tel),
     srv6_bsid |-> "FC00::A",
     dscp |-> dscp(req.tel),
     mlo_prefer_6ghz |-> TRUE,
     next_cycle_ms |-> 500]

\* the plan built at lines 125-147; clock is self._clock
PlanResponse(clock, req) ==
    [rep_rate_hz |-> rep_rate(req.tel, req.limits),
     pulse_width_ps |-> 100,
     decoys |-> decoys(req.tel),
     gate_shift_ps |-> gate_shift_ps(clock, rep_rate(req.tel, req.limits)),
     amzi_phase_deg |-> phase_deg(req.tel),
     eom_bias_v_delta |-> 0,
     preferred |-> preferred(req.tel),
     srv6_bsid |-> "FC00::A",
     dscp |-> dscp(req.tel),
     mlo_prefer_6ghz |-> TRUE,
     next_cycle_ms |-> 500]

Ack(m) == [ok |-> TRUE, msg |-> m]

\* history: a request in progress remembers every clock model that the
\* planner held while it was served
Holding(w, model) ==
    IF w = <<>> \/ w[1].stage = "returned"
    THEN w
    ELSE <<[w[1] EXCEPT !.held = @ \cup {model}]>>

\* Plugin.__init__: the planner holds the baseline clock model
InitPlugin ==
    /\ RuntimeAtRest
    /\ pc = "listening"
    /\ plugin_clock = BaselineClock
    /\ probe = <<>>
    /\ inflight = <<>>
    /\ request = NoRequest
    /\ response = NoneId

\* the bridge runtime is no part of the planner's process
Served(rpc) ==
    /\ pc' = rpc
    /\ UNCHANGED <<caller, cfg, qcs_channel, plugin_channel, qcs, plugin,
                   session_id, running, telemetry, plan, pending, exc, tick0,
                   pre_calls, calls, fin_calls, issued>>

Hello ==
    /\ pc \in {"listening", "Hello", "Describe", "SetClockModel", "PlanCycle", "Events"}
    /\ request' = [op |-> "Hello"]
    /\ response' = [bridge_version |-> "any", qcs_firmware |-> "unknown",
                    features |-> <<"dual-clock", "domain-policy">>]
    /\ UNCHANGED <<plugin_clock, probe, inflight>>
    /\ Served("Hello")

Describe ==
    /\ pc \in {"listening", "Hello", "Describe", "SetClockModel", "PlanCycle", "Events"}
    /\ request' = [op |-> "Describe"]
    /\ response' = [can_plan_tx_schedule |-> TRUE, can_phase_dither |-> TRUE,
                    can_clock_align |-> TRUE, can_domain_policy |-> TRUE,
                    requires_raw_counts |-> FALSE]
    /\ UNCHANGED <<plugin_clock, probe, inflight>>
    /\ Served("Describe")

SetClockModel ==
    /\ pc \in {"listening", "Hello", "Describe", "SetClockModel", "PlanCycle", "Events"}
    /\ \E model \in ClockModels :
          /\ request' = model
          /\ plugin_clock' = model
          /\ inflight' = Holding(inflight, model)
    /\ response' = Ack("clock accepted")
    /\ UNCHANGED probe
    /\ Served("SetClockModel")

PlanCycle ==
    /\ pc \in {"listening", "Hello", "Describe", "SetClockModel", "PlanCycle", "Events"}
    /\ \E req \in PlanRequests :
          /\ request' = req
          /\ response' = PlanResponse(plugin_clock, req)
          /\ probe' = IF req = ProbeRequest /\ probe = <<>>
                       THEN <<PlanResponse(plugin_clock, req)>>
                       ELSE probe
    /\ UNCHANGED <<plugin_clock, inflight>>
    /\ Served("PlanCycle")

Events ==
    /\ pc \in {"listening", "Hello", "Describe", "SetClockModel", "PlanCycle", "Events"}
    /\ \E tel \in Telemetries : request' = <<tel>>
    /\ response' = Ack("event stream closed")
    /\ UNCHANGED <<plugin_clock, probe, inflight>>
    /\ Served("Events")

NextPlugin ==
    \/ Hello
    \/ Describe
    \/ SetClockModel
    \/ PlanCycle
    \/ Events

SpecPlugin == InitPlugin /\ [][NextPlugin]_vars

-----------------------------------------------------------------------------
(* The planner behind serve(): one Plugin instance on a pool of worker     *)
(* threads.  A PlanCycle request is served in steps, between which the     *)
(* other workers serve SetClockModel requests; `self._clock = model`       *)
(* rebinds one attribute and `self._clock.fine_hz` reads it once, so each  *)
(* of the two is one step.  pc keeps naming the last request answered.     *)

PoolRequests ==
    {req \in PlanRequests :
        /\ req.tel.atm_loss_db_per_km = 100
        /\ req.tel.scintillation_idx \in {31, 100}
        /\ req.limits.rep_rate_min_hz = 0
        /\ req.limits.rep_rate_max_hz \in {0, 40000000}}

\* a worker holds a request: telemetry and limits are read, rep_rate is
\* computed from them (lines 62-74)
PlanCycle_rep_rate ==
    /\ IF inflight = <<>> THEN TRUE ELSE inflight[1].stage = "returned"
    /\ \E req \in PoolRequests :
          inflight' = <<[req |-> req,
                         stage |-> "rep_rate",
                         rep_rate |-> rep_rate(req.tel, req.limits),
                         gate_shift_ps |-> 0,
                         held |-> {plugin_clock}]>>
    /\ UNCHANGED <<plugin_clock, probe, request, response>>
    /\ Served(pc)

\* the gate shift computed from the clock field of the request
PlanCycle_gate_shift_from_request ==
    /\ inflight # <<>>
    /\ inflight[1].stage = "rep_rate"
    /\ inflight' =
          <<[inflight[1] EXCEPT
                !.stage = "gate_shift",
                !.gate_shift_ps =
                    gate_shift_ps(inflight[1].req.clock, inflight[1].rep_rate)]>>
    /\ UNCHANGED <<plugin_clock, probe, request, response>>
    /\ Served(pc)

\* the worker reads self._clock.fine_hz and computes the gate shift
\* (lines 78-79)
PlanCycle_gate_shift ==
    /\ inflight # <<>>
    /\ inflight[1].stage = "rep_rate"
    /\ inflight' =
          <<[inflight[1] EXCEPT
                !.stage = "gate_shift",
                !.gate_shift_ps =
                    gate_shift_ps(plugin_clock, inflight[1].rep_rate)]>>
    /\ UNCHANGED <<plugin_clock, probe, request, response>>
    /\ Served(pc)

\* decoys, phase and domain are computed from the telemetry and the plan is
\* returned (lines 84-147)
PlanCycle_return ==
    /\ inflight # <<>>
    /\ inflight[1].stage = "gate_shift"
    /\ request' = inflight[1].req
    /\ response' =
          [rep_rate_hz |-> inflight[1].rep_rate,
           pulse_width_ps |-> 100,
           decoys |-> decoys(inflight[1].req.tel),
           gate_shift_ps |-> inflight[1].gate_shift_ps,
           amzi_phase_deg |-> phase_deg(inflight[1].req.tel),
           eom_bias_v_delta |-> 0,
           preferred |-> preferred(inflight[1].req.tel),
           srv6_bsid |-> "FC00::A",
           dscp |-> dscp(inflight[1].req.tel),
           mlo_prefer_6ghz |-> TRUE,
           next_cycle_ms |-> 500]
    /\ inflight' = <<[inflight[1] EXCEPT !.stage = "returned"]>>
    /\ UNCHANGED <<plugin_clock, probe>>
    /\ Served("PlanCycle")

NextPool ==
    \/ SetClockModel
    \/ PlanCycle_rep_rate
    \/ PlanCycle_gate_shift
    \/ PlanCycle_return

SpecPool == InitPlugin /\ [][NextPool]_vars

-----------------------------------------------------------------------------
(* Vocabulary of the properties *)

Actuations == {"SetDecoyProfile", "Configure", "Calibrate"}
ExitPcs == {"returned", "raised"}

\* every request of the history returned normally
AllOk(log) == \A i \in DOMAIN log : log[i].result = "ok"

\* the request of a history entry, whatever its outcome
Sent(entry) == [entry EXCEPT !.result = "ok"]

Has(log, req) == \E i \in DOMAIN log : Sent(log[i]) = req

\* the current tick has polled its telemetry (GetStatus returned)
Polled == calls # <<>> /\ calls[1] = Req("GetStatus")

AtCeiling == telemetry.qber_pct >= cfg.qber_hard_ceiling_pct

ChannelsClosed == qcs_channel = "closed" /\ plugin_channel = "closed"

-----------------------------------------------------------------------------
(* C1: in a tick that starts RUNNING and polls qber >= ceiling, the bridge *)
(* issues GetStatus, Shutter(open=false), StopQkd(session_id) in that      *)
(* order and nothing else (no PlanCycle, no actuation); once both calls    *)
(* have returned the running flag is cleared.                              *)
C1_ParkingTick ==
    (Polled /\ tick0.running /\ AtCeiling) =>
        /\ \A i \in DOMAIN calls : calls[i].op \notin Actuations \cup {"PlanCycle"}
        /\ Len(calls) <= 3
        /\ Len(calls) >= 2 => Sent(calls[2]) = ShutterRequest(FALSE)
        /\ Len(calls) >= 3 => Sent(calls[3]) = StopRequest(tick0.session_id)
        /\ (AllOk(calls) /\ pc \notin {"park_shutter", "park_stop"}) =>
               (Len(calls) = 3 /\ ~running)

C1_Witness ==
    /\ pc = "sleep" /\ tick0.running /\ AtCeiling /\ ~running
    /\ Len(calls) = 3 /\ calls[3].op = "StopQkd"

(* C2: in a tick that starts PARKED and polls qber < ceiling, Shutter(open= *)
(* true), then StartQkd(session_id) are issued and the running flag is set, *)
(* all before the PlanCycle request of that tick.                           *)
C2_RecoveryTick ==
    (Polled /\ ~tick0.running /\ ~AtCeiling) =>
        /\ \A i \in DOMAIN calls : calls[i].op = "PlanCycle" => i = 4
        /\ (pc = "plan_cycle" \/ Len(calls) >= 4) =>
               /\ calls[2] = ShutterRequest(TRUE)
               /\ calls[3] = StartRequest(tick0.session_id)
               /\ running
        /\ (AllOk(calls) /\ pc \notin {"recover_shutter", "recover_start",
                                        "plan_cycle"}) =>
               (Len(calls) >= 4 /\ calls[4].op = "PlanCycle")

C2_Witness ==
    /\ pc = "apply_decoys" /\ ~tick0.running /\ ~AtCeiling /\ running
    /\ Len(calls) = 4 /\ calls[2] = ShutterRequest(TRUE)

(* C3: a tick that starts PARKED and polls qber >= ceiling issues GetStatus *)
(* only and leaves session_id and the running flag unchanged.               *)
C3_ParkedTickIsQuiet ==
    (Polled /\ ~tick0.running /\ AtCeiling) =>
        /\ calls = <<Req("GetStatus")>>
        /\ running = tick0.running
        /\ session_id = tick0.session_id

C3_Witness ==
    /\ pc = "sleep" /\ Polled /\ ~tick0.running /\ AtCeiling
    /\ Has(pre_calls, StartRequest(session_id))

(* C4: every SetDecoyProfile request carries mu_signal in [lo,hi], mu_decoy *)
(* in [lo/10,hi] and vacuum_prob in [0,1], (lo,hi) the configured mu range. *)
C4_DecoysWithinBounds ==
    \A i \in DOMAIN calls :
        calls[i].op = "SetDecoyProfile" =>
            /\ cfg.mu_range[1] <= cfg.mu_range[2]
            /\ cfg.mu_range[1] <= calls[i].mu_signal
            /\ calls[i].mu_signal <= cfg.mu_range[2]
            /\ cfg.mu_range[1] <= 10 * calls[i].mu_decoy
            /\ calls[i].mu_decoy <= cfg.mu_range[2]
            /\ 0 <= calls[i].vacuum_prob
            /\ calls[i].vacuum_prob <= 1000

C4_Witness ==
    /\ Len(calls) >= 1 /\ calls[Len(calls)].op = "SetDecoyProfile"
    /\ plan.decoys.mu_signal > cfg.mu_range[2]
    /\ 10 * plan.decoys.mu_decoy < cfg.mu_range[1]
    /\ plan.decoys.vac_prob < 0

(* C5: when the plan's rep_rate_hz is set, the Configure request of         *)
(* _apply_plan carries clamp(rep_rate_hz, (lo,hi)) / 1e6, a rate in [lo,hi] *)
C5_RepRateClamped ==
    /\ \A i \in DOMAIN calls :
        calls[i].op = "Configure" =>
            LET lo == cfg.rep_rate_hz_range[1]
                hi == cfg.rep_rate_hz_range[2]
                hz == calls[i].symbol_rate_MHz * 1000000
            IN  /\ plan.has_tx /\ plan.rep_rate_hz # 0
                /\ lo <= hi
                /\ lo <= hz /\ hz <= hi
                /\ plan.rep_rate_hz < lo => hz = lo
                /\ plan.rep_rate_hz > hi => hz = hi
                /\ (lo <= plan.rep_rate_hz /\ plan.rep_rate_hz <= hi) =>
                       hz = plan.rep_rate_hz
    /\ (pc = "apply_phase" /\ plan.has_tx /\ plan.rep_rate_hz # 0) =>
           calls[Len(calls)].op = "Configure"

C5_Witness ==
    /\ pc = "apply_phase" /\ calls[Len(calls)].op = "Configure"
    /\ plan.rep_rate_hz > cfg.rep_rate_hz_range[2]
    /\ cfg.rep_rate_hz_range[2] > 0

(* C6: if clamping a field of the plan fails (ValueError), no              *)
(* SetDecoyProfile, Configure or Calibrate request was sent for that plan. *)
C6_ValidatedBeforeActuation ==
    pending = "ValueError" =>
        \A i \in DOMAIN calls : calls[i].op \notin Actuations

(* C7: whenever run() has exited on a connected runtime, the termination   *)
(* sequence was executed: StopQkd if running and a session is held,        *)
(* Shutter(open=false) if shutter_guard, and both channels closed.         *)
C7_TerminationOnEveryExit ==
    (pc \in ExitPcs /\ qcs /\ plugin) =>
        /\ (running /\ Truthy(session_id)) =>
               Has(fin_calls, StopRequest(session_id))
        /\ cfg.shutter_guard => Has(fin_calls, ShutterRequest(FALSE))
        /\ ChannelsClosed

(* C8: if the Shutter(open=false) call of the termination sequence fails,  *)
(* the channels are still closed and run() ends as it would have otherwise *)
(* (normal return, or the exception that was in flight).                   *)
C8_ShutterFailureSwallowed ==
    (\E i \in DOMAIN fin_calls :
        fin_calls[i].op = "Shutter" /\ fin_calls[i].result = "RpcError") =>
        /\ pc \in {"fin_close"} \cup ExitPcs
        /\ pc \in ExitPcs =>
               /\ ChannelsClosed
               /\ exc = pending
               /\ (pc = "returned") <=> (pending = "none")

C8_Witness ==
    /\ pc = "raised" /\ exc = "ValueError" /\ ChannelsClosed
    /\ fin_calls[Len(fin_calls)] =
           [ShutterRequest(FALSE) EXCEPT !.result = "RpcError"]

(* C9: if the StopQkd call of the termination sequence fails,              *)
(* Shutter(open=false) is still issued when shutter_guard is enabled and   *)
(* both channels are still closed.                                         *)
C9_StopFailureDoesNotSkipCleanup ==
    (/\ pc \in ExitPcs
     /\ \E i \in DOMAIN fin_calls :
            fin_calls[i].op = "StopQkd" /\ fin_calls[i].result = "RpcError") =>
        /\ cfg.shutter_guard => Has(fin_calls, ShutterRequest(FALSE))
        /\ ChannelsClosed

(* C10: the termination sequence with no session held (or the running     *)
(* flag false) and shutter_guard false issues no controller call and does  *)
(* not fail; only the channels are closed.                                 *)
C10_TeardownNoSessionNoGuard ==
    (/\ pc \in {"fin_shutter", "fin_close"} \cup ExitPcs
     /\ calls # <<>>
     /\ ~Truthy(session_id) \/ ~running
     /\ ~cfg.shutter_guard) =>
        /\ fin_calls = <<>>
        /\ pc \in ExitPcs => (ChannelsClosed /\ exc = pending)

C10_Witness ==
    /\ pc = "returned" /\ calls # <<>> /\ ~Truthy(session_id) /\ running
    /\ ~cfg.shutter_guard /\ fin_calls = <<>> /\ ChannelsClosed

-----------------------------------------------------------------------------
(* C11: a configuration whose mu_range or rep_rate_hz_range has lo > hi is *)
(* rejected when it is loaded, so no controller or planner request is ever *)
(* issued with it and no per-cycle clamp is the first to detect it.        *)
C11_InvertedRangeRejected ==
    (cfg.mu_range[1] > cfg.mu_range[2]
        \/ cfg.rep_rate_hz_range[1] > cfg.rep_rate_hz_range[2]) =>
        /\ pre_calls = <<>> /\ calls = <<>> /\ fin_calls = <<>>
        /\ pending # "ValueError" /\ exc # "ValueError"

\* a successful ensure_session has completed: StartQkd returned for the
\* session id that is held
SessionEstablished == Has(pre_calls, StartRequest(session_id)) /\ running

(* C13: after one successful ensure_session, a later ensure_session call   *)
(* returns the session id that is held, issues no Configure and no         *)
(* StartQkd and leaves session_id and the running flag unchanged.          *)
C13_EnsureSessionIdempotent ==
    [][(pc = "ensure_session" /\ SessionEstablished) =>
          /\ response' = session_id
          /\ pre_calls' = pre_calls
          /\ session_id' = session_id
          /\ running' = running]_vars

(* C14: _apply_plan called with no session id held, or with no controller  *)
(* client, raises the precondition error before any request is sent and   *)
(* leaves session_id and the running flag unchanged, whatever the plan.    *)
C14_ApplyPlanNeedsSession ==
    [][(pc = "apply_decoys" /\ caller = "api"
            /\ (~qcs \/ ~Truthy(session_id))) =>
          /\ pc' = "raised" /\ exc' = "RuntimeError"
          /\ calls' = <<>> /\ pre_calls' = pre_calls
          /\ session_id' = session_id
          /\ running' = running]_vars

C14_Witness ==
    /\ pc = "raised" /\ exc = "RuntimeError" /\ caller = "api"
    /\ plan.has_decoys /\ plan.rep_rate_hz # 0 /\ calls = <<>>
    /\ qcs /\ session_id = ""

\* the step in which a client calls run()
RunCalled == caller = "api" /\ caller' = "run"

(* C15: run() called while the controller or the planner client is absent, *)
(* and ensure_session() called with no session held and no controller      *)
(* client, raise the precondition error, issue no request and change       *)
(* neither session_id nor the running flag.                                *)
C15_PreconditionViolations ==
    [][((RunCalled /\ (~qcs \/ ~plugin))
            \/ (pc = "ensure_session" /\ ~Truthy(session_id) /\ ~qcs)) =>
          /\ pc' = "raised" /\ exc' = "RuntimeError"
          /\ pre_calls' = pre_calls /\ calls' = calls
          /\ fin_calls' = fin_calls
          /\ session_id' = session_id
          /\ running' = running]_vars

C15_Witness ==
    /\ pc = "raised" /\ exc = "RuntimeError" /\ caller = "run"
    /\ qcs /\ ~plugin /\ pre_calls = <<>> /\ session_id = NoneId

(* C16: when connect() fails because TLS is enabled for an endpoint whose  *)
(* CA file is absent, no channel has been opened for either endpoint.      *)
C16_NoChannelBeforeTlsFailure ==
    exc = "FileNotFoundError" =>
        (qcs_channel = "none" /\ plugin_channel = "none")

(* C12: for lo <= hi, clamp(v,(lo,hi)) is in [lo,hi]: v itself when        *)
(* lo <= v <= hi, lo when v < lo, hi when v > hi; for lo > hi clamp fails  *)
(* and returns no value.                                                   *)
C12_ClampCorrect ==
    pc = "clamp_done" =>
        LET v == request.value
            lo == request.bounds[1]
            hi == request.bounds[2]
        IN  /\ response.ok <=> (lo <= hi)
            /\ lo <= hi =>
                   /\ lo <= response.v /\ response.v <= hi
                   /\ (lo <= v /\ v <= hi) => response.v = v
                   /\ v < lo => response.v = lo
                   /\ v > hi => response.v = hi

C12_Witness ==
    /\ pc = "clamp_done" /\ response.ok
    /\ request.bounds[1] < request.bounds[2]
    /\ request.value > request.bounds[2]
    /\ response.v = request.bounds[2]

(* The planner's answers, stated on the request served last *)

Larger(a, b) == IF a >= b THEN a ELSE b
Smaller(a, b) == IF a <= b THEN a ELSE b

PlanServed == pc = "PlanCycle"

\* the claims' tiers, on the request's telemetry
InTier0 == request.tel.atm_loss_db_per_km <= 100 /\ request.tel.qber_pct <= 30
InTier2 == request.tel.atm_loss_db_per_km > 200 \/ request.tel.qber_pct > 50
InTier1 == ~InTier0 /\ ~InTier2

\* the claims' floor, ceiling and tier-0 baseline, on the request's limits
ClaimedFloor == Larger(request.limits.rep_rate_min_hz, 1000000)
ClaimedCeiling ==
    IF request.limits.rep_rate_max_hz = 0
    THEN 1000000000
    ELSE request.limits.rep_rate_max_hz
ClaimedBaseline == Larger(ClaimedFloor, Smaller(100000000, ClaimedCeiling))

(* C17: the decoy profile of a plan is (0.50,0.08,0.10,0.75,0.15) when     *)
(* loss <= 10 and qber <= 3, (0.40,0.06,0.15,0.65,0.20) when loss > 10 or  *)
(* qber > 3 but neither loss > 20 nor qber > 5, and                        *)
(* (0.30,0.05,0.20,0.60,0.20) when loss > 20 or qber > 5; the thresholds   *)
(* are strict and every tier-2 trigger is a tier-1 trigger.                *)
C17_DecoyProfileByTier ==
    PlanServed =>
        /\ InTier0 =>
              response.decoys =
                 [mu_signal |-> 500, mu_decoy |-> 80, vac_prob |-> 100,
                  sig_prob |-> 750, decoy_prob |-> 150]
        /\ InTier1 =>
              response.decoys =
                 [mu_signal |-> 400, mu_decoy |-> 60, vac_prob |-> 150,
                  sig_prob |-> 650, decoy_prob |-> 200]
        /\ InTier2 =>
              response.decoys =
                 [mu_signal |-> 300, mu_decoy |-> 50, vac_prob |-> 200,
                  sig_prob |-> 600, decoy_prob |-> 200]
        /\ InTier2 => ~InTier0

\* loss = 20 with qber = 5 was planned and got the tier-1 profile
C17_Witness ==
    /\ PlanServed
    /\ request.tel.atm_loss_db_per_km = 200
    /\ request.tel.qber_pct = 50
    /\ response.decoys.mu_signal = 400
    /\ response.decoys.decoy_prob = 200

(* C18: for telemetry that triggers tier 2 the planned rep_rate_hz is      *)
(* max(rep_floor, baseline / 4), baseline being the tier-0 value           *)
(* max(rep_floor, min(1e8, rep_ceiling)).                                  *)
C18_Tier2RateIsBaselineQuartered ==
    (PlanServed /\ InTier2) =>
        response.rep_rate_hz = Larger(ClaimedFloor, ClaimedBaseline \div 4)

C20_DomainByTier2 ==
    PlanServed =>
        /\ InTier2 => response.preferred = "MMWAVE"
        /\ ~InTier2 => response.preferred = "FSO"
        /\ response.dscp = 46

\* qber alone triggered tier 2 and the plan prefers millimeter-wave
C20_Witness ==
    /\ PlanServed
    /\ request.tel.atm_loss_db_per_km <= 200
    /\ request.tel.qber_pct > 50
    /\ response.preferred = "MMWAVE"
    /\ response.dscp = 46

(* C21: two PlanCycle requests with equal clock model, telemetry and       *)
(* constraints return equal plans, whatever SetClockModel requests the     *)
(* planner served before or between them.                                  *)
C21_PlanCycleIsPure ==
    (PlanServed /\ request = ProbeRequest /\ probe # <<>>) =>
        response = probe[1]

\* gate_shift_ps as the formula of the planner gives it for clock model c
GateShiftFor(c, rate) ==
    LET raw == (c.fine_hz * 8000) \div (rate \div 125000)
    IN  Larger(Smaller(raw, 150), -150)

(* C21, amended: a plan is a function of the request's telemetry and       *)
(* constraints and of the clock model the planner holds (the last one      *)
(* pushed by SetClockModel, the baseline before any): rep_rate, decoys,    *)
(* phase and domain are equal for equal requests whatever SetClockModel    *)
(* requests were served, and gate_shift_ps is the one of the held clock    *)
(* model, not of the request's clock field.                                *)
C21_PlanDependsOnHeldClock ==
    PlanServed =>
        /\ response.gate_shift_ps = GateShiftFor(plugin_clock, response.rep_rate_hz)
        /\ (request = ProbeRequest /\ probe # <<>>) =>
              /\ response.rep_rate_hz = probe[1].rep_rate_hz
              /\ response.decoys = probe[1].decoys
              /\ response.amzi_phase_deg = probe[1].amzi_phase_deg
              /\ response.preferred = probe[1].preferred
              /\ response.dscp = probe[1].dscp
              /\ response.srv6_bsid = probe[1].srv6_bsid

\* the probe request was planned again under another clock model
C21_Witness ==
    /\ PlanServed
    /\ request = ProbeRequest
    /\ probe # <<>>
    /\ probe[1].gate_shift_ps = 0
    /\ plugin_clock.fine_hz = 5
    /\ response.gate_shift_ps = 50

(* C22: for every fine_hz (positive, zero or negative) and every telemetry *)
(* and constraints the planned gate_shift_ps lies in [-150, 150], and the  *)
(* planned rep_rate, the divisor, is never below 1e6.                      *)
C22_GateShiftBounded ==
    PlanServed =>
        /\ response.gate_shift_ps >= -150
        /\ response.gate_shift_ps <= 150
        /\ response.rep_rate_hz >= 1000000

\* a negative fine_hz was clamped to the lower guard rail
C22_Witness ==
    /\ PlanServed
    /\ plugin_clock.fine_hz < 0
    /\ response.gate_shift_ps = -150

(* C23: the planned amzi_phase_deg is 0 for scintillation_idx <= 0.3 and   *)
(* min((scintillation_idx - 0.3) * 20, 8) above, so it is always in [0, 8] *)
(* and is 8 at scintillation_idx = 1.0.                                    *)
C23_PhaseDither ==
    PlanServed =>
        LET s == request.tel.scintillation_idx
        IN  /\ s <= 30 => response.amzi_phase_deg = 0
            /\ s > 30 => response.amzi_phase_deg = Smaller((s - 30) * 20, 800)
            /\ response.amzi_phase_deg >= 0
            /\ response.amzi_phase_deg <= 800
            /\ s = 100 => response.amzi_phase_deg = 800

C23_Witness ==
    /\ PlanServed
    /\ request.tel.scintillation_idx = 100
    /\ response.amzi_phase_deg = 800

-----------------------------------------------------------------------------
(* The order of the requests of run() *)

Ops(log) == [i \in DOMAIN log |-> log[i].op]

Count(log, op) == Cardinality({i \in DOMAIN log : log[i].op = op})

Interlock == {"Shutter", "StopQkd", "StartQkd"}

(* C24: in every execution of run() the session is established (Configure  *)
(* then StartQkd) before the first GetStatus, SetClockModel is issued      *)
(* exactly once, before the first PlanCycle, and never inside the loop.    *)
C24_PrologueBeforeLoop ==
    /\ calls # <<>> =>
          /\ Ops(pre_calls) =
                 <<"Configure", "StartQkd", "SetClockModel", "Hello", "Describe">>
          /\ AllOk(pre_calls)
          /\ pre_calls[2] = StartRequest(session_id)
    /\ Count(pre_calls, "SetClockModel") <= 1
    /\ Count(calls, "SetClockModel") = 0
    /\ Count(fin_calls, "SetClockModel") = 0

C24_Witness ==
    /\ pc = "apply_decoys"
    /\ Count(calls, "PlanCycle") = 1
    /\ Count(pre_calls, "SetClockModel") = 1
    /\ pre_calls[1].op = "Configure"

\* every StartQkd, StopQkd and SetDecoyProfile request of the log carries
\* the session id held
CarriesSession(log) ==
    \A i \in DOMAIN log :
        log[i].op \in {"StartQkd", "StopQkd", "SetDecoyProfile"} =>
            log[i].session_id = session_id

IdsCarried ==
    CarriesSession(pre_calls) /\ CarriesSession(calls) /\ CarriesSession(fin_calls)

(* C25: once assigned by ensure_session, session_id never changes for the  *)
(* rest of the run; every StartQkd, StopQkd and SetDecoyProfile request    *)
(* carries that id; the running flag changes only in ensure_session, the   *)
(* parking transition and the recovery transition.                         *)
C25_SessionStable ==
    [][/\ session_id # NoneId => session_id' = session_id
       /\ IdsCarried'
       /\ running' # running =>
              \/ pc = "ensure_start" /\ running'
              \/ pc = "park_stop" /\ ~running'
              \/ pc = "recover_start" /\ running']_vars

\* a run that parked, recovered, applied a rate and stopped the session
C25_Witness ==
    /\ pc = "returned"
    /\ session_id = "qkd-1"
    /\ ~tick0.running
    /\ Count(calls, "StartQkd") = 1
    /\ Count(calls, "Configure") = 1
    /\ Has(fin_calls, StopRequest("qkd-1"))

(* C26: at the end of every completed tick the bridge is PARKED if and     *)
(* only if the tick's qber_pct >= qber_hard_ceiling_pct (equality parks),  *)
(* so a tick whose telemetry is on the other side of the ceiling than the  *)
(* previous one issues the Shutter/StopQkd or Shutter/StartQkd pair.       *)
C26_NoHysteresis ==
    (pc = "sleep" /\ caller = "run") =>
        /\ ~running <=> telemetry.qber_pct >= cfg.qber_hard_ceiling_pct
        /\ (tick0.running /\ ~running) =>
              /\ calls[2] = ShutterRequest(FALSE)
              /\ calls[3] = StopRequest(session_id)
        /\ (~tick0.running /\ running) =>
              /\ calls[2] = ShutterRequest(TRUE)
              /\ calls[3] = StartRequest(session_id)
        /\ tick0.running = running => Count(calls, "Shutter") = 0

\* a parked bridge recovered in the tick whose qber fell below the ceiling
C26_Witness ==
    /\ pc = "sleep"
    /\ ~tick0.running /\ running
    /\ telemetry.qber_pct < cfg.qber_hard_ceiling_pct
    /\ calls[2] = ShutterRequest(TRUE)

\* what the plan of the tick makes _apply_plan send
PlansDecoys == plan.has_tx /\ plan.has_decoys
PlansRate == plan.has_tx /\ plan.rep_rate_hz # 0
PlansPhase ==
    plan.has_phase /\ (plan.amzi_phase_deg > 10 \/ plan.amzi_phase_deg < -10)

(* C27: the requests of a tick are ordered: exactly one GetStatus first,   *)
(* then the optional interlock actuation, then at most one PlanCycle, then *)
(* that plan's actuations; a plan is applied once, in the tick that        *)
(* requested it, and no actuation derives from an earlier tick's plan.     *)
C27_TickOrder ==
    calls # <<>> =>
        /\ calls[1].op = "GetStatus"
        /\ Count(calls, "GetStatus") = 1
        /\ Count(calls, "PlanCycle") <= 1
        /\ \A i, j \in DOMAIN calls :
              /\ (calls[i].op \in Interlock /\ calls[j].op = "PlanCycle") => i < j
              /\ (calls[i].op \in Actuations /\ calls[j].op = "PlanCycle") =>
                     (j < i /\ calls[j].result = "ok")
              /\ (calls[i].op = "SetDecoyProfile"
                    /\ calls[j].op \in {"Configure", "Calibrate"}) => i < j
              /\ (calls[i].op = "Configure" /\ calls[j].op = "Calibrate") => i < j
        /\ \A i \in DOMAIN calls : calls[i].op \in Actuations => Count(calls, "PlanCycle") = 1
        /\ Count(calls, "SetDecoyProfile") <= (IF PlansDecoys THEN 1 ELSE 0)
        /\ Count(calls, "Configure") <= (IF PlansRate THEN 1 ELSE 0)
        /\ Count(calls, "Calibrate") <= (IF PlansPhase THEN 1 ELSE 0)
        /\ (pc \in {"sleep", "poll"} /\ Count(calls, "PlanCycle") = 1) =>
              /\ Count(calls, "SetDecoyProfile") = (IF PlansDecoys THEN 1 ELSE 0)
              /\ Count(calls, "Configure") = (IF PlansRate THEN 1 ELSE 0)
              /\ Count(calls, "Calibrate") = (IF PlansPhase THEN 1 ELSE 0)

\* a recovery tick whose plan made all three actuations
C27_Witness ==
    /\ pc = "sleep"
    /\ Ops(calls) = <<"GetStatus", "Shutter", "StartQkd", "PlanCycle",
                      "SetDecoyProfile", "Configure", "Calibrate">>

FinallyPcs == {"fin_stop", "fin_shutter", "fin_close"}

Failed(log) == \E i \in DOMAIN log : log[i].result = "RpcError"

(* C28: there is no retry inside the loop: if a remote call of a tick      *)
(* fails, it is not re-issued, no further tick begins, the termination     *)
(* sequence runs and the error propagates out of run().                    *)
C28_NoRetry ==
    Failed(calls) =>
        /\ calls[Len(calls)].result = "RpcError"
        /\ \A i \in DOMAIN calls : calls[i].result = "RpcError" => i = Len(calls)
        /\ pc \in FinallyPcs \cup ExitPcs
        /\ pc \in ExitPcs =>
              /\ pc = "raised"
              /\ exc # "none"
              /\ (running /\ Truthy(session_id)) =>
                     Has(fin_calls, StopRequest(session_id))
              /\ cfg.shutter_guard => Has(fin_calls, ShutterRequest(FALSE))
              /\ ChannelsClosed

\* the part of C28 that does not concern the termination sequence
C28_NoRetryNoNextTick ==
    Failed(calls) =>
        /\ \A i \in DOMAIN calls : calls[i].result = "RpcError" => i = Len(calls)
        /\ pc \in FinallyPcs \cup ExitPcs
        /\ pc \in ExitPcs => (pc = "raised" /\ exc # "none")

\* the step of _apply_plan that decides on the phase calibration
PhaseStep == pc = "apply_phase" /\ plan.has_phase

CalibrateIssued == calls' # calls /\ calls'[Len(calls')].op = "Calibrate"

(* C29: for every plan that has a phase field, _apply_plan issues the      *)
(* Calibrate request if and only if the unclamped |amzi_phase_deg| > 0.1   *)
(* (a magnitude of exactly 0.1 or less issues none), whatever              *)
(* amzi_phase_deg_limit is.                                                *)
C29_CalibrateIffBeyondDeadband ==
    [][PhaseStep =>
         (CalibrateIssued <=>
             (plan.amzi_phase_deg > 10 \/ plan.amzi_phase_deg < -10))]_vars

\* C29 for the limits that are not negative
C29_NonNegativeLimit ==
    [][(PhaseStep /\ cfg.amzi_phase_deg_limit >= 0) =>
         (CalibrateIssued <=>
             (plan.amzi_phase_deg > 10 \/ plan.amzi_phase_deg < -10))]_vars

\* the Configure requests of ensure_session
SessionConfigures == {i \in DOMAIN pre_calls : pre_calls[i].op = "Configure"}

StartOnlyAfterConfigure ==
    \A i \in DOMAIN pre_calls :
        pre_calls[i].op = "StartQkd" =>
            /\ i > 1
            /\ pre_calls[i - 1].op = "Configure"
            /\ pre_calls[i - 1].result = "ok"
            /\ pre_calls[i].session_id \in SessionIds

(* C30: for every configured rep_rate_hz_range (lo,hi) the Configure       *)
(* request of ensure_session carries symbol_rate_MHz = ((lo + hi) / 2) /   *)
(* 1e6, and StartQkd is issued only after Configure returned the id.       *)
C30_SymbolRateIsMidpoint ==
    /\ \A i \in SessionConfigures :
          2 * 1000000 * pre_calls[i].symbol_rate_MHz =
              cfg.rep_rate_hz_range[1] + cfg.rep_rate_hz_range[2]
    /\ StartOnlyAfterConfigure

(* C30, amended: for every configured range (lo,hi) with hi > 0 the        *)
(* Configure request of ensure_session carries the midpoint                *)
(* ((lo + hi) / 2) / 1e6, and for hi <= 0 (the default range is (0,0)) it  *)
(* carries 100 MHz; StartQkd is issued only after Configure returned the   *)
(* id.                                                                     *)
C30_SymbolRateMidpointOrDefault ==
    /\ \A i \in SessionConfigures :
          IF cfg.rep_rate_hz_range[2] > 0
          THEN 2 * 1000000 * pre_calls[i].symbol_rate_MHz =
                   cfg.rep_rate_hz_range[1] + cfg.rep_rate_hz_range[2]
          ELSE pre_calls[i].symbol_rate_MHz = 100
    /\ StartOnlyAfterConfigure

C30_Witness ==
    /\ cfg.rep_rate_hz_range = <<50000000, 200000000>>
    /\ Len(pre_calls) >= 2
    /\ pre_calls[1] = ConfigureRequest(125)
    /\ pre_calls[2] = StartRequest(session_id)
    /\ running

(* C31: for every constraints input and every telemetry the planned        *)
(* rep_rate_hz lies within [rep_floor, rep_ceiling], rep_floor =           *)
(* max(rep_rate_min_hz, 1e6) and rep_ceiling = rep_rate_max_hz (1e9 when   *)
(* unset), so the planner never proposes a rate above the configured       *)
(* maximum.                                                                *)
C31_RateWithinFloorAndCeiling ==
    PlanServed =>
        /\ response.rep_rate_hz >= ClaimedFloor
        /\ response.rep_rate_hz <= ClaimedCeiling

(* C31, amended: the planned rep_rate_hz is never below rep_floor; it lies *)
(* within [rep_floor, rep_ceiling] whenever rep_floor <= rep_ceiling, and  *)
(* when rep_floor > rep_ceiling (a maximum below the minimum or below 1e6) *)
(* it is rep_floor, which is above the configured maximum.                 *)
C31_RateAtLeastFloor ==
    PlanServed =>
        /\ response.rep_rate_hz >= ClaimedFloor
        /\ ClaimedFloor <= ClaimedCeiling => response.rep_rate_hz <= ClaimedCeiling
        /\ ClaimedFloor > ClaimedCeiling => response.rep_rate_hz = ClaimedFloor

\* a tier-0 plan at the configured maximum, which is below 1e8
C31_Witness ==
    /\ PlanServed
    /\ InTier0
    /\ request.limits.rep_rate_min_hz = 20000000
    /\ request.limits.rep_rate_max_hz = 40000000
    /\ response.rep_rate_hz = 40000000

\* a plan was returned by the worker that served it in steps
PoolServed ==
    /\ pc = "PlanCycle"
    /\ inflight # <<>>
    /\ inflight[1].stage = "returned"

(* C32: a PlanCycle request served concurrently with SetClockModel         *)
(* requests returns a gate_shift_ps computed from exactly one clock model  *)
(* that the planner held while the request was served (the one held when   *)
(* it began or one written by a SetClockModel since), and every other      *)
(* field of the plan is the one of the same request served alone.          *)
C32_GateShiftFromOneClockModel ==
    PoolServed =>
        /\ \E c \in inflight[1].held :
              response.gate_shift_ps = GateShiftFor(c, response.rep_rate_hz)
        /\ \A c \in ClockModels :
              [PlanResponse(c, request) EXCEPT !.gate_shift_ps = 0]
                  = [response EXCEPT !.gate_shift_ps = 0]

\* the clock model was written before and after the worker read it: the
\* plan carries the gate shift of the second of three models
C32_Witness ==
    /\ PoolServed
    /\ Cardinality(inflight[1].held) = 3
    /\ plugin_clock.fine_hz = 5
    /\ response.gate_shift_ps = -150

\* the requests of the current tick that actuate a plan
Actuated == {i \in DOMAIN calls : calls[i].op \in Actuations}

(* C33: plan actuation happens only in the RUNNING state: every            *)
(* SetDecoyProfile, plan-driven Configure and Calibrate request of run()   *)
(* is issued while the running flag is true and a session id is held, in   *)
(* a tick whose polled qber_pct is strictly below qber_hard_ceiling_pct.   *)
C33_ActuationOnlyWhileRunning ==
    Actuated # {} =>
        /\ running
        /\ session_id # NoneId
        /\ Truthy(session_id)
        /\ Polled
        /\ telemetry.qber_pct < cfg.qber_hard_ceiling_pct

\* a tick that recovered from PARKED and then actuated the whole plan
C33_Witness ==
    /\ pc = "sleep"
    /\ ~tick0.running
    /\ Count(calls, "StartQkd") = 1
    /\ Count(calls, "SetDecoyProfile") = 1
    /\ Count(calls, "Configure") = 1
    /\ Count(calls, "Calibrate") = 1

\* the bridge is PARKED inside the loop: the running flag is false at the
\* poll, at the sleep or before the recovery transition begins
ParkedInLoop ==
    /\ caller = "run"
    /\ ~running
    /\ pc \in {"poll", "sleep", "recover_shutter"}

\* the first of the requests of a history is StartQkd
BeginsWithStart(log) == Len(log) = 1 => log[1] = "StartQkd"

\* the last two requests of a history differ
Alternate(log) == Len(log) = 2 => log[1] # log[2]

====
